---- MODULE Spec2Model ----
(***************************************************************************)
(* Persistent remote collections (RemoteDict, RemoteList, RemoteSet), the  *)
(* Factory that caches one instance per (type, identifier), the fail-fast  *)
(* iterators, and the Kafka operation dispatcher of kafka_client.py.       *)
(***************************************************************************)
EXTENDS Integers, Sequences, FiniteSets, TLC

\* ------------------------------------------------------------------------
\* Bounds of the model
\* ------------------------------------------------------------------------
NumItems == 2      \* distinct strings used as items, keys and values
NumIds == 1        \* distinct caller-supplied identifiers
MaxOps == 2        \* mutating calls in one behaviour
MaxBatch == 2      \* descriptors in the payloads of one behaviour

Items == {ToString(i) : i \in 1..NumItems}
Ids == {ToString(i) : i \in 1..NumIds}
NoId == ""         \* a missing (falsy) identifier
TypeNames == {"RDict", "RList", "RSet"}
Orders == {"asc", "desc"}

Range(s) == {s[i] : i \in DOMAIN s}

\* ------------------------------------------------------------------------
\* State
\* ------------------------------------------------------------------------
VARIABLES
    disk,      \* file name -> file content ([st, val])
    objs,      \* handle -> live collection instance of the server process
    rdicts,    \* Factory._rdicts: identifier -> handle
    rlists,    \* Factory._rlists
    rsets,     \* Factory._rsets
    built,     \* handles constructed by the factory since process start
    iter,      \* the iterator object held by the caller
    watch,     \* what the caller has observed about that iterator
    fresh,     \* a second instance constructed on the same backing file
    last,      \* the last call and its outcome, as seen by the caller
    ghost,     \* handle -> what the caller has observed about that instance
    nops,      \* mutating calls made so far
    consumer,  \* the consuming loop of kafka_client.py
    threads    \* thread -> its position inside Factory.get

vars == <<disk, objs, rdicts, rlists, rsets, built, iter, watch, fresh, last,
          ghost, nops, consumer, threads>>

\* ------------------------------------------------------------------------
\* Files.  A file is absent, holds text json cannot decode, or holds a JSON
\* document.  Dict files hold the mapping itself (a sequence of <<key,
\* value>> in document order); List files and the Set file hold an object
\* identifier -> array.
\* ------------------------------------------------------------------------
STORAGE_PATH == "storage"
GLOBAL_STORAGE_FILE == "remoteset_data.json"

DictFileName(identifier) == STORAGE_PATH \o "/rdict_" \o identifier \o ".json"
ListFileName(identifier) == STORAGE_PATH \o "/rlist_" \o identifier \o ".json"

DefaultId(typeName) ==
    CASE typeName = "RDict" -> "default_rdict"
      [] typeName = "RList" -> "default_rlist"
      [] OTHER -> "default_rset"

AllIds == Ids \cup {DefaultId(t) : t \in TypeNames}

FileNames == {DictFileName(i) : i \in AllIds} \cup {ListFileName(i) : i \in AllIds}
                \cup {GLOBAL_STORAGE_FILE}

AbsentFile == [st |-> "absent", val |-> << >>]
MalformedFile == [st |-> "malformed", val |-> << >>]
JsonFile(v) == [st |-> "json", val |-> v]

\* open(file, 'w') followed by json.dump: the write succeeds, open fails
\* (the file keeps its content), or the dump fails after the truncation.
IoOutcomes == {"ok", "eopen", "ewrite"}

WriteFile(f, v, io) ==
    CASE io = "ok" -> JsonFile(v)
      [] io = "eopen" -> f
      [] OTHER -> MalformedFile

\* ------------------------------------------------------------------------
\* Python containers
\* ------------------------------------------------------------------------
\* dict: a sequence of <<key, value>> in insertion order, keys distinct
DictKeys(d) == {d[i][1] : i \in DOMAIN d}
DictIndex(d, key) == CHOOSE i \in DOMAIN d : d[i][1] = key
DictGet(d, key) == d[DictIndex(d, key)][2]
DictSet(d, key, value) ==
    IF key \in DictKeys(d)
    THEN [d EXCEPT ![DictIndex(d, key)] = <<key, value>>]
    ELSE Append(d, <<key, value>>)
SeqDelete(s, i) == [j \in 1..(Len(s) - 1) |-> IF j < i THEN s[j] ELSE s[j + 1]]
DictDel(d, key) == SeqDelete(d, DictIndex(d, key))

\* list.remove(x): the first occurrence
ListIndex(s, x) == CHOOSE i \in DOMAIN s : s[i] = x /\ \A j \in 1..(i - 1) : s[j] # x

\* set: the hash table enumerates its members by slot; the slot order of the
\* strings depends on the process's string hashing ("asc" or "desc" here)
ItemIndex(x) == CHOOSE i \in 1..NumItems : ToString(i) = x
Slot(x, order) == IF order = "asc" THEN ItemIndex(x) ELSE NumItems + 1 - ItemIndex(x)
SlotsFrom(data, order, pos) == {Slot(x, order) : x \in data} \cap (pos..NumItems)
MinOf(S) == CHOOSE m \in S : \A n \in S : m <= n
ItemAt(data, order, slot) == CHOOSE x \in data : Slot(x, order) = slot

RECURSIVE SetListFrom(_, _, _)
SetListFrom(data, order, pos) ==
    IF SlotsFrom(data, order, pos) = {} THEN << >>
    ELSE LET s == MinOf(SlotsFrom(data, order, pos))
         IN  <<ItemAt(data, order, s)>> \o SetListFrom(data, order, s + 1)
\* list(self.data)
SetList(data, order) == SetListFrom(data, order, 1)

\* ------------------------------------------------------------------------
\* Loading and saving
\* ------------------------------------------------------------------------
\* the file is read and its content dropped
Dict_load_data_Dropped(f) == << >>

Dict_load_data(f) == IF f.st = "json" THEN f.val ELSE << >>

Dict_save_data(o, f, io) ==
    [file |-> WriteFile(f, o.storage, io),
     exc |-> IF io = "ok" THEN "none" ELSE "RuntimeError"]

List_load_data(f, identifier) ==
    IF f.st = "json" /\ identifier \in DOMAIN f.val THEN f.val[identifier] ELSE << >>

JsonObject(f) == IF f.st = "json" THEN f.val ELSE << >>
JsonPut(m, key, v) == [k \in (DOMAIN m) \cup {key} |-> IF k = key THEN v ELSE m[k]]

\* leaves a file it cannot decode as it is
List_save_data_Timid(o, f, io) ==
    [file |-> IF f.st = "malformed" THEN f
              ELSE WriteFile(f, JsonPut(JsonObject(f), o.id, o.storage), io),
     exc |-> IF io = "ok" THEN "none" ELSE "RuntimeError"]

List_save_data(o, f, io) ==
    [file |-> WriteFile(f, JsonPut(JsonObject(f), o.id, o.storage), io),
     exc |-> IF io = "ok" THEN "none" ELSE "RuntimeError"]

Set_load_data(f, identifier) ==
    IF f.st = "json" /\ identifier \in DOMAIN f.val THEN Range(f.val[identifier]) ELSE {}

Set_save_global_storage(o, f, io) ==
    [file |-> WriteFile(f, JsonPut(JsonObject(f), o.id, SetList(o.storage, o.order)), io),
     exc |-> IF io = "ok" THEN "none" ELSE "OSError"]

\* ------------------------------------------------------------------------
\* Constructors
\* ------------------------------------------------------------------------
RemoteDict(identifier, storage_file) ==
    [type |-> "RDict", id |-> identifier, storage_file |-> storage_file,
     storage |-> Dict_load_data(disk[storage_file]), mod |-> 0, order |-> "asc"]

RemoteList(identifier, storage_file) ==
    [type |-> "RList", id |-> identifier, storage_file |-> storage_file,
     storage |-> List_load_data(disk[storage_file], identifier), mod |-> 0,
     order |-> "asc"]

RemoteSet(identifier, order) ==
    [type |-> "RSet", id |-> identifier, storage_file |-> GLOBAL_STORAGE_FILE,
     storage |-> Set_load_data(disk[GLOBAL_STORAGE_FILE], identifier), mod |-> 0,
     order |-> order]

\* ------------------------------------------------------------------------
\* Methods.  Each takes the instance o and its backing file f and gives the
\* instance and the file after the call, the exception raised ("none" when
\* the call returns) and the value returned (<< >> for None, <<v>> for v).
\* ------------------------------------------------------------------------
Bump(o, storage) == [o EXCEPT !.storage = storage, !.mod = @ + 1]
Returns(o, f, v) == [obj |-> o, file |-> f, exc |-> "none", ret |-> v]
Raises(o, f, e) == [obj |-> o, file |-> f, exc |-> e, ret |-> << >>]
Saved(o, sv, v) ==
    [obj |-> o, file |-> sv.file, exc |-> sv.exc,
     ret |-> IF sv.exc = "none" THEN v ELSE << >>]

\* --- RemoteDict ---
\* stores the pair without looking for the key
DictSetItem_Appending(o, f, key, item, io) ==
    LET o1 == Bump(o, Append(o.storage, <<key, item>>))
    IN  Saved(o1, Dict_save_data(o1, f, io), << >>)

DictSetItem(o, f, key, item, io) ==
    LET o1 == Bump(o, DictSet(o.storage, key, item))
    IN  Saved(o1, Dict_save_data(o1, f, io), << >>)

\* del on an absent key taken for a removal
DictRemove_Silent(o, f, key, io) ==
    LET o1 == Bump(o, IF key \in DictKeys(o.storage) THEN DictDel(o.storage, key)
                      ELSE o.storage)
    IN  Saved(o1, Dict_save_data(o1, f, io), << >>)

DictRemove(o, f, key, io) ==
    IF key \notin DictKeys(o.storage) THEN Raises(o, f, "KeyError")
    ELSE LET o1 == Bump(o, DictDel(o.storage, key))
         IN  Saved(o1, Dict_save_data(o1, f, io), << >>)

DictPop(o, f, key, io) ==
    IF key \notin DictKeys(o.storage) THEN Raises(o, f, "KeyError")
    ELSE LET o1 == Bump(o, DictDel(o.storage, key))
         IN  Saved(o1, Dict_save_data(o1, f, io), <<DictGet(o.storage, key)>>)

DictGetItem(o, f, key) ==
    IF key \notin DictKeys(o.storage) THEN Raises(o, f, "KeyError")
    ELSE Returns(o, f, <<DictGet(o.storage, key)>>)

DictLength(o, f) == Returns(o, f, <<Len(o.storage)>>)
DictContains(o, f, key) == Returns(o, f, <<key \in DictKeys(o.storage)>>)

\* --- RemoteList ---
\* a Python index i on a sequence of length n: negative indices count from
\* the end; the 1-based position, or 0 when out of range
PyIndex(n, i) ==
    IF 0 <= i /\ i < n THEN i + 1
    ELSE IF i < 0 /\ 0 <= n + i THEN n + i + 1
    ELSE 0

ListAppend(o, f, item, io) ==
    LET o1 == Bump(o, Append(o.storage, item))
    IN  Saved(o1, List_save_data(o1, f, io), << >>)

ListRemove(o, f, item, io) ==
    IF item \notin Range(o.storage) THEN Raises(o, f, "KeyError")
    ELSE LET o1 == Bump(o, SeqDelete(o.storage, ListIndex(o.storage, item)))
         IN  Saved(o1, List_save_data(o1, f, io), << >>)

\* the index is not passed on to list.pop
ListPop_Last(o, f, index, io) ==
    LET n == Len(o.storage)
        p == IF index = << >> THEN n ELSE IF PyIndex(n, index[1]) = 0 THEN 0 ELSE n
    IN  IF p = 0 THEN Raises(o, f, "IndexError")
        ELSE LET o1 == Bump(o, SeqDelete(o.storage, p))
             IN  Saved(o1, List_save_data(o1, f, io), <<o.storage[p]>>)

\* index is << >> (None / Ice.Unset) or <<i>>
ListPop(o, f, index, io) ==
    LET n == Len(o.storage)
        p == IF index = << >> THEN n ELSE PyIndex(n, index[1])
    IN  IF p = 0 THEN Raises(o, f, "IndexError")
        ELSE LET o1 == Bump(o, SeqDelete(o.storage, p))
             IN  Saved(o1, List_save_data(o1, f, io), <<o.storage[p]>>)

ListGetItem(o, f, index) ==
    LET p == PyIndex(Len(o.storage), index)
    IN  IF p = 0 THEN Raises(o, f, "IndexError")
        ELSE Returns(o, f, <<o.storage[p]>>)

ListLength(o, f) == Returns(o, f, <<Len(o.storage)>>)
ListContains(o, f, item) == Returns(o, f, <<item \in Range(o.storage)>>)

\* --- RemoteSet ---
\* counts and saves the re-add of a member as well
SetAdd_Counting(o, f, item, io) ==
    LET o1 == Bump(o, o.storage \cup {item})
    IN  Saved(o1, Set_save_global_storage(o1, f, io), << >>)

SetAdd(o, f, item, io) ==
    IF item \in o.storage THEN Returns(o, f, << >>)
    ELSE LET o1 == Bump(o, o.storage \cup {item})
         IN  Saved(o1, Set_save_global_storage(o1, f, io), << >>)

SetRemove(o, f, item, io) ==
    IF item \notin o.storage THEN Raises(o, f, "KeyError")
    ELSE LET o1 == Bump(o, o.storage \ {item})
         IN  Saved(o1, Set_save_global_storage(o1, f, io), << >>)

\* returns a member and leaves it in the set
SetPop_Peek(o, f, pick, io) ==
    IF o.storage = {} THEN Raises(o, f, "KeyError")
    ELSE LET o1 == Bump(o, o.storage)
         IN  Saved(o1, Set_save_global_storage(o1, f, io), <<pick>>)

\* set.pop() removes an arbitrary member: pick is the one the table yields
SetPop(o, f, pick, io) ==
    IF o.storage = {} THEN Raises(o, f, "KeyError")
    ELSE LET o1 == Bump(o, o.storage \ {pick})
         IN  Saved(o1, Set_save_global_storage(o1, f, io), <<pick>>)

SetLength(o, f) == Returns(o, f, <<Cardinality(o.storage)>>)
SetContains(o, f, item) == Returns(o, f, <<item \in o.storage>>)

\* --- shared ---
Identifier(o, f) == Returns(o, f, <<o.id>>)

\* hash(x) of a tuple or a frozenset, as a value that stands for x
PyHash(x) == <<"hash", x>>
\* hash(tuple(sorted(items))): the sorted tuple is given by the set of items
\* hash(tuple(self._storage_.items())), without sorted
DictHash_Unsorted(o, f) == Returns(o, f, <<PyHash(o.storage)>>)

DictHash(o, f) == Returns(o, f, <<PyHash(Range(o.storage))>>)
ListHash(o, f) == Returns(o, f, <<PyHash(o.storage)>>)
SetHash(o, f) == Returns(o, f, <<PyHash(o.storage)>>)

\* ------------------------------------------------------------------------
\* Iterators.  A Python iterator over a built-in container keeps a position
\* (pos), the size it saw when created (used; -1 once a size change was
\* reported) and its link to the container (live; dropped at exhaustion).
\* ------------------------------------------------------------------------
NoHandle == <<"", "", 0>>
NoIter == [kind |-> "none", src |-> NoHandle, expected |-> 0, pos |-> 1,
           live |-> FALSE, used |-> 0]

\* f"{key}: {value}"
Format(entry) == entry[1] \o ": " \o entry[2]

Yields(it, v) == [it |-> it, exc |-> "none", ret |-> <<v>>]
Fails(it, e) == [it |-> it, exc |-> e, ret |-> << >>]

DictIterator(h, o, expected_mod_count) ==
    [kind |-> "RDict", src |-> h, expected |-> expected_mod_count, pos |-> 1,
     live |-> TRUE, used |-> Len(o.storage)]

\* next() of iter(dict.items())
PyDictItemsNext(it, o) ==
    IF ~it.live THEN Fails(it, "StopIteration")
    ELSE IF it.used # Len(o.storage)
    THEN Fails([it EXCEPT !.used = -1], "RuntimeError")
    ELSE IF it.pos <= Len(o.storage)
    THEN [it |-> [it EXCEPT !.pos = @ + 1], exc |-> "none",
          ret |-> <<o.storage[it.pos]>>]
    ELSE Fails([it EXCEPT !.live = FALSE], "StopIteration")

DictIteratorNext(it, o) ==
    IF it.expected # o.mod THEN Fails(it, "CancelIteration")
    ELSE LET r == PyDictItemsNext(it, o)
         IN  IF r.exc = "none" THEN Yields(r.it, Format(r.ret[1])) ELSE r

ListIterator(h, o, expected_mod_count) ==
    [kind |-> "RList", src |-> h, expected |-> expected_mod_count, pos |-> 1,
     live |-> TRUE, used |-> 0]

\* stops one element early
PyListNext_Short(it, o) ==
    IF ~it.live THEN Fails(it, "StopIteration")
    ELSE IF it.pos < Len(o.storage)
    THEN Yields([it EXCEPT !.pos = @ + 1], o.storage[it.pos])
    ELSE Fails([it EXCEPT !.live = FALSE], "StopIteration")

\* next() of iter(list)
PyListNext(it, o) ==
    IF ~it.live THEN Fails(it, "StopIteration")
    ELSE IF it.pos <= Len(o.storage)
    THEN Yields([it EXCEPT !.pos = @ + 1], o.storage[it.pos])
    ELSE Fails([it EXCEPT !.live = FALSE], "StopIteration")

\* without the comparison of the counters
ListIteratorNext_Unchecked(it, o) == PyListNext(it, o)

ListIteratorNext(it, o) ==
    IF it.expected # o.mod THEN Fails(it, "CancelIteration")
    ELSE PyListNext(it, o)

RemoteSetIterator(h, o) ==
    [kind |-> "RSet", src |-> h, expected |-> 0, pos |-> 1,
     live |-> TRUE, used |-> Cardinality(o.storage)]

\* a reported size change is forgotten once the size is back
PySetNext_Forgetful(it, o) ==
    IF ~it.live THEN Fails(it, "StopIteration")
    ELSE IF it.used # Cardinality(o.storage)
    THEN Fails(it, "RuntimeError")
    ELSE IF SlotsFrom(o.storage, o.order, it.pos) # {}
    THEN LET s == MinOf(SlotsFrom(o.storage, o.order, it.pos))
         IN  Yields([it EXCEPT !.pos = s + 1], ItemAt(o.storage, o.order, s))
    ELSE Fails([it EXCEPT !.live = FALSE], "StopIteration")

\* next() of iter(set)
PySetNext(it, o) ==
    IF ~it.live THEN Fails(it, "StopIteration")
    ELSE IF it.used # Cardinality(o.storage)
    THEN Fails([it EXCEPT !.used = -1], "RuntimeError")
    ELSE IF SlotsFrom(o.storage, o.order, it.pos) # {}
    THEN LET s == MinOf(SlotsFrom(o.storage, o.order, it.pos))
         IN  Yields([it EXCEPT !.pos = s + 1], ItemAt(o.storage, o.order, s))
    ELSE Fails([it EXCEPT !.live = FALSE], "StopIteration")

RemoteSetIteratorNext(it, o) ==
    LET r == PySetNext(it, o)
    IN  IF r.exc = "RuntimeError" THEN Fails(r.it, "CancelIteration") ELSE r

\* ------------------------------------------------------------------------
\* Factory
\* ------------------------------------------------------------------------
\* the identity of a newly constructed instance (adapter.addWithUUID)
NewHandle(typeName, identifier) ==
    <<typeName, identifier,
      1 + Cardinality({b \in built.made : b[1] = typeName /\ b[2] = identifier})>>

Cached(cache, identifier) == [cache |-> cache, new |-> << >>, ret |-> cache[identifier]]
Created(cache, h, o) ==
    [cache |-> JsonPut(cache, h[2], h), new |-> <<o>>, ret |-> h]

\* constructs without looking into the cache
Factory_get_rdict_Always(identifier) ==
    Created(rdicts, NewHandle("RDict", identifier),
            RemoteDict(identifier, DictFileName(identifier)))

Factory_get_rdict(identifier) ==
    IF identifier \notin DOMAIN rdicts
    THEN Created(rdicts, NewHandle("RDict", identifier),
                 RemoteDict(identifier, DictFileName(identifier)))
    ELSE Cached(rdicts, identifier)

Factory_get_rlist(identifier) ==
    IF identifier \notin DOMAIN rlists
    THEN Created(rlists, NewHandle("RList", identifier),
                 RemoteList(identifier, ListFileName(identifier)))
    ELSE Cached(rlists, identifier)

Factory_get_rset(identifier, order) ==
    IF identifier \notin DOMAIN rsets
    THEN Created(rsets, NewHandle("RSet", identifier), RemoteSet(identifier, order))
    ELSE Cached(rsets, identifier)

\* identifier or "default_..."
OrDefault(identifier, typeName) ==
    IF identifier = NoId THEN DefaultId(typeName) ELSE identifier

Factory_get_Lenient(typeName, identifier, order) ==
    LET id == OrDefault(identifier, typeName)
        got(r, d, l, s) == [rdicts |-> d, rlists |-> l, rsets |-> s, new |-> r.new,
                            exc |-> "none", ret |-> r.ret]
    IN  IF typeName = "RDict"
        THEN LET r == Factory_get_rdict(id) IN got(r, r.cache, rlists, rsets)
        ELSE IF typeName = "RList"
        THEN LET r == Factory_get_rlist(id) IN got(r, rdicts, r.cache, rsets)
        ELSE LET r == Factory_get_rset(id, order) IN got(r, rdicts, rlists, r.cache)

Factory_get(typeName, identifier, order) ==
    LET id == OrDefault(identifier, typeName)
        got(r, d, l, s) == [rdicts |-> d, rlists |-> l, rsets |-> s, new |-> r.new,
                            exc |-> "none", ret |-> r.ret]
    IN  IF typeName = "RDict"
        THEN LET r == Factory_get_rdict(id) IN got(r, r.cache, rlists, rsets)
        ELSE IF typeName = "RList"
        THEN LET r == Factory_get_rlist(id) IN got(r, rdicts, r.cache, rsets)
        ELSE IF typeName = "RSet"
        THEN LET r == Factory_get_rset(id, order) IN got(r, rdicts, rlists, r.cache)
        ELSE [rdicts |-> rdicts, rlists |-> rlists, rsets |-> rsets, new |-> << >>,
              exc |-> "ValueError", ret |-> NoHandle]

\* ------------------------------------------------------------------------
\* kafka_client.py: the dispatch of one operation descriptor.  A descriptor
\* is a record of the fields its JSON object has; args likewise.  A function
\* of the client either returns the pair (result, error), None being << >>,
\* or is left by an exception (raised).  Exceptions of the servants reach
\* the client through the proxy call; they keep the servant's name here.
\* ------------------------------------------------------------------------
PyNone == "None"
NoArgs == << >>
RequiredFields == {"id", "object_type", "object_identifier", "operation"}
ArgError == "builtins.KeyError"

Pair(o, f, result, error) ==
    [obj |-> o, file |-> f, raised |-> "none", result |-> result, error |-> error]
Thrown(o, f, exc) ==
    [obj |-> o, file |-> f, raised |-> exc, result |-> << >>, error |-> << >>]
\* the proxy call with outcome r, then `return result, None`
AfterCall(r, result) ==
    IF r.exc # "none" THEN Thrown(r.obj, r.file, r.exc)
    ELSE Pair(r.obj, r.file, result, << >>)
\* args[name] for a name args does not have
Lacks(args, names) == ~(names \subseteq DOMAIN args)

\* the servant behind the proxy
PrxRemove(o, f, item, io) ==
    CASE o.type = "RDict" -> DictRemove(o, f, item, io)
      [] o.type = "RList" -> ListRemove(o, f, item, io)
      [] OTHER -> SetRemove(o, f, item, io)
PrxLength(o, f) ==
    CASE o.type = "RDict" -> DictLength(o, f)
      [] o.type = "RList" -> ListLength(o, f)
      [] OTHER -> SetLength(o, f)
PrxContains(o, f, item) ==
    CASE o.type = "RDict" -> DictContains(o, f, item)
      [] o.type = "RList" -> ListContains(o, f, item)
      [] OTHER -> SetContains(o, f, item)
PrxHash(o, f) ==
    CASE o.type = "RDict" -> DictHash(o, f)
      [] o.type = "RList" -> ListHash(o, f)
      [] OTHER -> SetHash(o, f)

\* without the branch for "iter"
process_common_operation_Open(o, f, operation, args, io) ==
    CASE operation = "identifier" ->
           LET r == Identifier(o, f) IN AfterCall(r, r.ret)
      [] operation = "remove" ->
           IF Lacks(args, {"item"}) THEN Thrown(o, f, ArgError)
           ELSE AfterCall(PrxRemove(o, f, args.item, io), << >>)
      [] operation = "length" ->
           LET r == PrxLength(o, f) IN AfterCall(r, r.ret)
      [] operation = "contains" ->
           IF Lacks(args, {"item"}) THEN Thrown(o, f, ArgError)
           ELSE LET r == PrxContains(o, f, args.item) IN AfterCall(r, r.ret)
      [] operation = "hash" ->
           LET r == PrxHash(o, f) IN AfterCall(r, r.ret)
      [] OTHER -> Pair(o, f, << >>, << >>)

process_common_operation(o, f, operation, args, io) ==
    CASE operation = "identifier" ->
           LET r == Identifier(o, f) IN AfterCall(r, r.ret)
      [] operation = "remove" ->
           IF Lacks(args, {"item"}) THEN Thrown(o, f, ArgError)
           ELSE AfterCall(PrxRemove(o, f, args.item, io), << >>)
      [] operation = "length" ->
           LET r == PrxLength(o, f) IN AfterCall(r, r.ret)
      [] operation = "contains" ->
           IF Lacks(args, {"item"}) THEN Thrown(o, f, ArgError)
           ELSE LET r == PrxContains(o, f, args.item) IN AfterCall(r, r.ret)
      [] operation = "hash" ->
           LET r == PrxHash(o, f) IN AfterCall(r, r.ret)
      [] operation = "iter" -> Pair(o, f, << >>, <<"OperationNotSupported">>)
      [] OTHER -> Pair(o, f, << >>, << >>)

\* append answers without calling the proxy
process_rlist_Forgetful(o, f, operation, args, io) ==
    CASE operation = "append" ->
           IF Lacks(args, {"item"}) THEN Thrown(o, f, ArgError)
           ELSE Pair(o, f, << >>, << >>)
      [] operation = "pop" ->
           IF "index" \in DOMAIN args
           THEN AfterCall(ListPop(o, f, <<args.index>>, io), << >>)
           ELSE AfterCall(ListPop(o, f, << >>, io), << >>)
      [] operation = "getItem" ->
           IF Lacks(args, {"index"}) THEN Thrown(o, f, ArgError)
           ELSE LET r == ListGetItem(o, f, args.index) IN AfterCall(r, r.ret)
      [] OTHER -> Pair(o, f, << >>, << >>)

process_rlist(o, f, operation, args, io) ==
    CASE operation = "append" ->
           IF Lacks(args, {"item"}) THEN Thrown(o, f, ArgError)
           ELSE AfterCall(ListAppend(o, f, args.item, io), << >>)
      [] operation = "pop" ->
           IF "index" \in DOMAIN args
           THEN AfterCall(ListPop(o, f, <<args.index>>, io), << >>)
           ELSE AfterCall(ListPop(o, f, << >>, io), << >>)
      [] operation = "getItem" ->
           IF Lacks(args, {"index"}) THEN Thrown(o, f, ArgError)
           ELSE LET r == ListGetItem(o, f, args.index) IN AfterCall(r, r.ret)
      [] OTHER -> Pair(o, f, << >>, << >>)

\* a name the table does not have is an error
process_rdict_Strict(o, f, operation, args, io) ==
    CASE operation = "setItem" ->
           IF Lacks(args, {"key", "item"}) THEN Thrown(o, f, ArgError)
           ELSE AfterCall(DictSetItem(o, f, args.key, args.item, io), << >>)
      [] operation = "getItem" ->
           IF Lacks(args, {"key"}) THEN Thrown(o, f, ArgError)
           ELSE LET r == DictGetItem(o, f, args.key) IN AfterCall(r, r.ret)
      [] operation = "pop" ->
           IF Lacks(args, {"key"}) THEN Thrown(o, f, ArgError)
           ELSE AfterCall(DictPop(o, f, args.key, io), << >>)
      [] OTHER -> Pair(o, f, << >>, <<"OperationNotSupported">>)

process_rdict(o, f, operation, args, io) ==
    CASE operation = "setItem" ->
           IF Lacks(args, {"key", "item"}) THEN Thrown(o, f, ArgError)
           ELSE AfterCall(DictSetItem(o, f, args.key, args.item, io), << >>)
      [] operation = "getItem" ->
           IF Lacks(args, {"key"}) THEN Thrown(o, f, ArgError)
           ELSE LET r == DictGetItem(o, f, args.key) IN AfterCall(r, r.ret)
      [] operation = "pop" ->
           IF Lacks(args, {"key"}) THEN Thrown(o, f, ArgError)
           ELSE AfterCall(DictPop(o, f, args.key, io), << >>)
      [] OTHER -> Pair(o, f, << >>, << >>)

\* the table of the Set has an entry for "remove" as well
process_rset_Removing(o, f, operation, args, pick, io) ==
    CASE operation = "add" ->
           IF Lacks(args, {"item"}) THEN Thrown(o, f, ArgError)
           ELSE AfterCall(SetAdd(o, f, args.item, io), << >>)
      [] operation = "pop" -> AfterCall(SetPop(o, f, pick, io), << >>)
      [] operation = "remove" ->
           IF Lacks(args, {"item"}) THEN Thrown(o, f, ArgError)
           ELSE AfterCall(SetRemove(o, f, args.item, io), << >>)
      [] OTHER -> Pair(o, f, << >>, << >>)

process_rset(o, f, operation, args, pick, io) ==
    CASE operation = "add" ->
           IF Lacks(args, {"item"}) THEN Thrown(o, f, ArgError)
           ELSE AfterCall(SetAdd(o, f, args.item, io), << >>)
      [] operation = "pop" -> AfterCall(SetPop(o, f, pick, io), << >>)
      [] OTHER -> Pair(o, f, << >>, << >>)

\* hands every object_type to the factory
get_rtype_proxy_Any(obj_type, obj_identifier, order) ==
    <<Factory_get(obj_type, obj_identifier, order)>>

\* None, or <<g>> with g the outcome of factory.get
get_rtype_proxy(obj_type, obj_identifier, order) ==
    IF obj_type \in {"RList", "RDict", "RSet"}
    THEN <<Factory_get(obj_type, obj_identifier, order)>>
    ELSE << >>

\* the instance a factory.get with outcome g has returned
Target(g) == IF g.new # << >> THEN g.new[1] ELSE objs[g.ret]

\* get: what get_rtype_proxy gave; call: the outcome of the handler that ran
Ends(get, call, raised, result, error) ==
    [get |-> get, call |-> call, raised |-> raised, result |-> result, error |-> error]
Returned(rtype_prx, c) == Ends(rtype_prx, <<c>>, c.raised, c.result, c.error)

\* step 3 of hacer_evento: the handler table of the type; c is what the
\* shared table left
Dispatched(event, args, rtype_prx, c, pick, io) ==
    IF c.raised # "none" \/ c.result # << >> \/ c.error # << >>
    THEN Returned(rtype_prx, c)
    ELSE Returned(rtype_prx,
           CASE event.object_type = "RList" ->
                  process_rlist(c.obj, c.file, event.operation, args, io)
             [] event.object_type = "RDict" ->
                  process_rdict(c.obj, c.file, event.operation, args, io)
             [] OTHER -> process_rset(c.obj, c.file, event.operation, args, pick, io))

\* step 2 of hacer_evento: the shared table, on the instance o
Resolved(event, args, rtype_prx, o, pick, io) ==
    Dispatched(event, args, rtype_prx,
               process_common_operation(o, disk[o.storage_file], event.operation, args, io),
               pick, io)

\* step 1 of hacer_evento: rtype_prx is what get_rtype_proxy gave
Obtained(event, rtype_prx, pick, io) ==
    IF rtype_prx = << >>
    THEN Ends(<< >>, << >>, "none", << >>, <<"UnknownObjectType">>)
    ELSE IF rtype_prx[1].exc # "none"
    THEN Ends(rtype_prx, << >>, rtype_prx[1].exc, << >>, << >>)
    ELSE Resolved(event, IF "args" \in DOMAIN event THEN event.args ELSE NoArgs,
                  rtype_prx, Target(rtype_prx[1]), pick, io)

\* asks the factory for the proxy before looking at the other fields
hacer_evento_Late(event, order, pick, io) ==
    IF ~(RequiredFields \subseteq DOMAIN event)
    THEN IF {"object_type", "object_identifier"} \subseteq DOMAIN event
         THEN Ends(get_rtype_proxy(event.object_type, event.object_identifier, order),
                   << >>, "none", << >>, <<"MalformedOperation">>)
         ELSE Ends(<< >>, << >>, "none", << >>, <<"MalformedOperation">>)
    ELSE Obtained(event,
                  get_rtype_proxy(event.object_type, event.object_identifier, order),
                  pick, io)

hacer_evento(event, order, pick, io) ==
    IF ~(RequiredFields \subseteq DOMAIN event)
    THEN Ends(<< >>, << >>, "none", << >>, <<"MalformedOperation">>)
    ELSE Obtained(event,
                  get_rtype_proxy(event.object_type, event.object_identifier, order),
                  pick, io)

\* the response record of a descriptor, appended to the list message
ErrorRecord(event, error) == [id |-> event.id, status |-> "error", error |-> error]
ResultRecord(event, result) == [id |-> event.id, status |-> "ok", result |-> result]
OkRecord(event) == [id |-> event.id, status |-> "ok"]
\* `if result:` in place of `if result is not None:`
Respond_Truthy(message, event, r) ==
    IF r.error # << >>
    THEN IF "id" \in DOMAIN event /\ event.id # PyNone
         THEN Append(message, ErrorRecord(event, r.error[1]))
         ELSE message
    ELSE IF /\ r.result # << >>
            /\ ~(event.operation = "length" /\ r.result[1] = 0)
            /\ ~(event.operation = "contains" /\ r.result[1] = FALSE)
    THEN Append(message, ResultRecord(event, r.result[1]))
    ELSE Append(message, OkRecord(event))

Respond(message, event, r) ==
    IF r.error # << >>
    THEN IF "id" \in DOMAIN event /\ event.id # PyNone
         THEN Append(message, ErrorRecord(event, r.error[1]))
         ELSE message
    ELSE IF r.result # << >>
    THEN Append(message, ResultRecord(event, r.result[1]))
    ELSE Append(message, OkRecord(event))

\* ------------------------------------------------------------------------
\* What the caller keeps track of
\* ------------------------------------------------------------------------
NoGhost == [changed |-> 0, failed |-> FALSE, committed |-> FALSE]
\* other: a second iterator the caller has taken on the same collection, and
\* m, the calls of next() made on it; snap: <<the contents when the iterator
\* was created>>
NoWatch == [size |-> 0, n |-> 0, out |-> << >>, okCalls |-> FALSE, okChanges |-> FALSE,
            dirty |-> FALSE, term |-> "none", other |-> NoIter, m |-> 0,
            snap |-> << >>]
NoFresh == [has |-> FALSE, src |-> NoHandle, obj |-> NoHandle]
SaveErrors == {"RuntimeError", "OSError"}

\* The consuming loop: where it is (pc: "poll" at consumer.poll, "exec" inside
\* the for loop, "dead" once an exception has left the function), the
\* payload taken last, the descriptors of it still to run (left) and run so
\* far (seen, over all payloads), the descriptor run last (event) and the
\* error returned for it, the list message, the value produced last (out)
\* and the number of produce calls (nout).
NoConsumer == [pc |-> "poll", payload |-> "none", left |-> 0, seen |-> 0,
               event |-> << >>, error |-> << >>, message |-> << >>,
               out |-> AbsentFile, nout |-> 0, exc |-> "none"]

MutatorOps == {"setItem", "append", "add", "remove", "pop"}
Extend(m, h, v) == [k \in (DOMAIN m) \cup {h} |-> IF k = h THEN v ELSE m[k]]

\* ------------------------------------------------------------------------
\* Actions
\* ------------------------------------------------------------------------
\* What earlier runs of the server may have left in the storage directory:
\* nothing, files cut short by a failed write, or saved collections.
DiskAbsent == [n \in FileNames |-> AbsentFile]
DiskMalformed == [n \in FileNames |-> MalformedFile]
DiskSaved ==
    [n \in FileNames |->
       IF n \in {DictFileName(i) : i \in AllIds}
       THEN JsonFile(<<<<ToString(1), ToString(1)>>>>)
       ELSE JsonFile([i \in AllIds |-> <<ToString(1)>>])]

\* the dispatch threads of the server; a thread outside Factory.get is Idle
Threads == {"t1", "t2"}
Idle == [pc |-> "idle", typeName |-> "", identifier |-> "", order |-> "", h |-> NoHandle]

Init ==
    /\ disk \in {DiskAbsent, DiskMalformed, DiskSaved}
    /\ objs = << >>
    /\ rdicts = << >>
    /\ rlists = << >>
    /\ rsets = << >>
    /\ built = [made |-> {}, given |-> {}]
    /\ iter = NoIter
    /\ watch = NoWatch
    /\ fresh = NoFresh
    /\ last = [op |-> "init", h |-> NoHandle, exc |-> "none", ret |-> << >>]
    /\ ghost = << >>
    /\ nops = 0
    /\ consumer = NoConsumer
    /\ threads = [t \in Threads |-> Idle]

\* Factory.get(typeName, identifier)
FactoryGet(typeName, identifier, order) ==
    LET r == Factory_get(typeName, identifier, order)
    IN  /\ rdicts' = r.rdicts
        /\ rlists' = r.rlists
        /\ rsets' = r.rsets
        /\ objs' = IF r.new = << >> THEN objs ELSE Extend(objs, r.ret, r.new[1])
        /\ ghost' = IF r.new = << >> THEN ghost ELSE Extend(ghost, r.ret, NoGhost)
        /\ built' = IF r.exc # "none" THEN built
                    ELSE [made |-> IF r.new = << >> THEN built.made
                                   ELSE built.made \cup {r.ret},
                          given |-> built.given \cup {r.ret}]
        /\ last' = [op |-> "get", h |-> r.ret, exc |-> r.exc,
                    ret |-> <<r.ret \in built.given>>]
        /\ fresh' = NoFresh
        /\ UNCHANGED <<threads, disk, iter, watch, nops, consumer>>

\* Factory.get entered by the dispatch thread t, up to and including the
\* test `identifier not in self._rdicts` (resp. _rlists, _rsets)
CacheOf(typeName) ==
    IF typeName = "RDict" THEN rdicts ELSE IF typeName = "RList" THEN rlists ELSE rsets

GetCheck(t, typeName, identifier, order) ==
    LET id == OrDefault(identifier, typeName)
    IN  /\ threads[t].pc = "idle"
        /\ threads' = [threads EXCEPT ![t] =
                         [pc |-> IF id \in DOMAIN CacheOf(typeName) THEN "return" ELSE "create",
                          typeName |-> typeName, identifier |-> id, order |-> order,
                          h |-> NoHandle]]
        /\ UNCHANGED <<disk, objs, rdicts, rlists, rsets, built, iter, watch, fresh, last,
                       ghost, nops, consumer>>

\* the body of the if: construct the instance, addWithUUID, store the proxy
GetCreate(t) ==
    LET c == threads[t]
        h == NewHandle(c.typeName, c.identifier)
        o == IF c.typeName = "RDict"
             THEN RemoteDict(c.identifier, DictFileName(c.identifier))
             ELSE IF c.typeName = "RList"
             THEN RemoteList(c.identifier, ListFileName(c.identifier))
             ELSE RemoteSet(c.identifier, c.order)
    IN  /\ c.pc = "create"
        /\ objs' = Extend(objs, h, o)
        /\ ghost' = Extend(ghost, h, NoGhost)
        /\ built' = [built EXCEPT !.made = @ \cup {h}]
        /\ rdicts' = IF c.typeName = "RDict" THEN JsonPut(rdicts, c.identifier, h) ELSE rdicts
        /\ rlists' = IF c.typeName = "RList" THEN JsonPut(rlists, c.identifier, h) ELSE rlists
        /\ rsets' = IF c.typeName = "RSet" THEN JsonPut(rsets, c.identifier, h) ELSE rsets
        /\ threads' = [threads EXCEPT ![t].pc = "return", ![t].h = h]
        /\ UNCHANGED <<disk, iter, watch, fresh, last, nops, consumer>>

\* `return self._rdicts[identifier]` (resp. _rlists, _rsets)
GetReturn(t) ==
    LET c == threads[t]
        h == CacheOf(c.typeName)[c.identifier]
    IN  /\ c.pc = "return"
        /\ built' = [built EXCEPT !.given = @ \cup {h}]
        /\ last' = [op |-> "get", h |-> h, exc |-> "none", ret |-> <<h \in built.given>>]
        /\ threads' = [threads EXCEPT ![t] = Idle]
        /\ UNCHANGED <<disk, objs, rdicts, rlists, rsets, iter, watch, fresh, ghost, nops,
                       consumer>>

\* a method call on the instance h whose outcome is r
Call(h, op, r, mutator) ==
    /\ objs' = [objs EXCEPT ![h] = r.obj]
    /\ disk' = [disk EXCEPT ![objs[h].storage_file] = r.file]
    /\ last' = [op |-> op, h |-> h, exc |-> r.exc, ret |-> r.ret]
    /\ ghost' = [ghost EXCEPT ![h] =
                   [changed |-> @.changed + (IF r.obj.storage # objs[h].storage THEN 1 ELSE 0),
                    failed |-> @.failed \/ r.exc \in SaveErrors,
                    committed |-> @.committed \/ (r.exc = "none" /\ r.obj # objs[h])]]
    /\ watch' = IF iter.kind # "none" /\ iter.src = h
                THEN [watch EXCEPT
                        !.okCalls = @ \/ (mutator /\ r.exc = "none"),
                        !.okChanges = @ \/ (r.exc = "none" /\ r.obj.storage # objs[h].storage),
                        !.dirty = @ \/ r.obj # objs[h]]
                ELSE watch
    /\ nops' = nops + (IF mutator THEN 1 ELSE 0)
    /\ fresh' = NoFresh
    /\ UNCHANGED <<threads, rdicts, rlists, rsets, built, iter, consumer>>

Is(h, typeName) == h \in DOMAIN objs /\ objs[h].type = typeName
File(h) == disk[objs[h].storage_file]
Budget == nops < MaxOps

RDict_setItem(h, key, item, io) ==
    Is(h, "RDict") /\ Budget /\ Call(h, "setItem", DictSetItem(objs[h], File(h), key, item, io), TRUE)
RDict_remove(h, key, io) ==
    Is(h, "RDict") /\ Budget /\ Call(h, "remove", DictRemove(objs[h], File(h), key, io), TRUE)
RDict_pop(h, key, io) ==
    Is(h, "RDict") /\ Budget /\ Call(h, "pop", DictPop(objs[h], File(h), key, io), TRUE)

RList_append(h, item, io) ==
    Is(h, "RList") /\ Budget /\ Call(h, "append", ListAppend(objs[h], File(h), item, io), TRUE)
RList_remove(h, item, io) ==
    Is(h, "RList") /\ Budget /\ Call(h, "remove", ListRemove(objs[h], File(h), item, io), TRUE)
RList_pop(h, index, io) ==
    Is(h, "RList") /\ Budget /\ Call(h, "pop", ListPop(objs[h], File(h), index, io), TRUE)

RSet_add(h, item, io) ==
    Is(h, "RSet") /\ Budget /\ Call(h, "add", SetAdd(objs[h], File(h), item, io), TRUE)
RSet_remove(h, item, io) ==
    Is(h, "RSet") /\ Budget /\ Call(h, "remove", SetRemove(objs[h], File(h), item, io), TRUE)
RSet_pop(h, pick, io) ==
    /\ Is(h, "RSet") /\ Budget
    /\ pick \in objs[h].storage \/ objs[h].storage = {}
    /\ Call(h, "pop", SetPop(objs[h], File(h), pick, io), TRUE)

Size(o) == IF o.type = "RSet" THEN Cardinality(o.storage) ELSE Len(o.storage)

\* iter(): the caller takes one iterator
Iter(h) ==
    /\ h \in DOMAIN objs
    /\ iter.kind = "none"
    /\ iter' = CASE objs[h].type = "RDict" -> DictIterator(h, objs[h], objs[h].mod)
                 [] objs[h].type = "RList" -> ListIterator(h, objs[h], objs[h].mod)
                 [] OTHER -> RemoteSetIterator(h, objs[h])
    /\ watch' = [NoWatch EXCEPT !.size = Size(objs[h]), !.snap = <<objs[h].storage>>]
    /\ last' = [op |-> "iter", h |-> h, exc |-> "none", ret |-> << >>]
    /\ fresh' = NoFresh
    /\ UNCHANGED <<threads, disk, objs, rdicts, rlists, rsets, built, ghost, nops, consumer>>

IteratorNext(it, o) ==
    CASE it.kind = "RDict" -> DictIteratorNext(it, o)
      [] it.kind = "RList" -> ListIteratorNext(it, o)
      [] OTHER -> RemoteSetIteratorNext(it, o)

\* next() on the iterator the caller holds
IterNext ==
    /\ iter.kind # "none"
    /\ watch.n < MaxOps + 2
    /\ LET r == IteratorNext(iter, objs[iter.src])
       IN  /\ iter' = r.it
           /\ watch' = [watch EXCEPT
                          !.n = @ + 1,
                          !.out = IF r.exc = "none" THEN Append(@, r.ret[1]) ELSE @,
                          !.term = IF @ = "none" THEN r.exc ELSE @]
           /\ last' = [op |-> "next", h |-> iter.src, exc |-> r.exc, ret |-> r.ret]
    /\ fresh' = NoFresh
    /\ UNCHANGED <<threads, disk, objs, rdicts, rlists, rsets, built, ghost, nops, consumer>>

\* iter() that writes to the counter
IterOther_Counting(h) ==
    /\ h \in DOMAIN objs
    /\ iter.kind # "none" /\ iter.src = h
    /\ watch.other.kind = "none"
    /\ objs' = [objs EXCEPT ![h].mod = @ + 1]
    /\ watch' = [watch EXCEPT
                   !.other = CASE objs[h].type = "RDict" ->
                                    DictIterator(h, objs[h], objs[h].mod + 1)
                               [] objs[h].type = "RList" ->
                                    ListIterator(h, objs[h], objs[h].mod + 1)
                               [] OTHER -> RemoteSetIterator(h, objs[h])]
    /\ last' = [op |-> "other.iter", h |-> h, exc |-> "none", ret |-> << >>]
    /\ fresh' = NoFresh
    /\ UNCHANGED <<threads, disk, iter, rdicts, rlists, rsets, built, ghost, nops, consumer>>

\* iter() once more on the collection the caller holds an iterator of
IterOther(h) ==
    /\ h \in DOMAIN objs
    /\ iter.kind # "none" /\ iter.src = h
    /\ watch.other.kind = "none"
    /\ objs' = objs
    /\ watch' = [watch EXCEPT
                   !.other = CASE objs[h].type = "RDict" ->
                                    DictIterator(h, objs[h], objs[h].mod)
                               [] objs[h].type = "RList" ->
                                    ListIterator(h, objs[h], objs[h].mod)
                               [] OTHER -> RemoteSetIterator(h, objs[h])]
    /\ last' = [op |-> "other.iter", h |-> h, exc |-> "none", ret |-> << >>]
    /\ fresh' = NoFresh
    /\ UNCHANGED <<threads, disk, iter, rdicts, rlists, rsets, built, ghost, nops, consumer>>

\* next() on the second iterator
OtherNext ==
    /\ watch.other.kind # "none"
    /\ watch.m < MaxOps + 2
    /\ LET r == IteratorNext(watch.other, objs[watch.other.src])
       IN  /\ watch' = [watch EXCEPT !.other = r.it, !.m = @ + 1]
           /\ last' = [op |-> "other.next", h |-> watch.other.src, exc |-> r.exc,
                       ret |-> r.ret]
    /\ fresh' = NoFresh
    /\ UNCHANGED <<threads, disk, objs, iter, rdicts, rlists, rsets, built, ghost, nops, consumer>>

\* a second instance constructed with the same identifier on the same file
Reopen(h) ==
    /\ h \in DOMAIN objs
    /\ fresh' = [has |-> TRUE, src |-> h,
                 obj |-> CASE objs[h].type = "RDict" ->
                                 RemoteDict(objs[h].id, objs[h].storage_file)
                           [] objs[h].type = "RList" ->
                                 RemoteList(objs[h].id, objs[h].storage_file)
                           [] OTHER -> RemoteSet(objs[h].id, objs[h].order)]
    /\ last' = [op |-> "reopen", h |-> h, exc |-> "none", ret |-> << >>]
    /\ UNCHANGED <<threads, disk, objs, rdicts, rlists, rsets, built, iter, watch, ghost, nops,
                   consumer>>

\* consume_and_process_messages, from consumer.poll to the for loop: payload
\* is "error" (msg.error()), "binary" (bytes that msg.value().decode() cannot
\* read as UTF-8: UnicodeDecodeError, which the except clause does not name),
\* "garbage" (text json.loads cannot decode) or "batch", a list of n descriptors
Poll(payload, n) ==
    /\ consumer.pc = "poll"
    /\ consumer' =
         CASE payload = "error" ->
                [consumer EXCEPT !.pc = "dead", !.payload = payload,
                                 !.exc = "KafkaException"]
           [] payload = "binary" ->
                [consumer EXCEPT !.pc = "dead", !.payload = payload,
                                 !.exc = "UnicodeDecodeError"]
           [] payload = "garbage" -> [consumer EXCEPT !.payload = payload]
           [] OTHER ->
                [consumer EXCEPT !.pc = IF n = 0 THEN "poll" ELSE "exec",
                                 !.payload = payload, !.left = n,
                                 !.message = << >>]
    /\ last' = [op |-> "poll", h |-> NoHandle, exc |-> "none", ret |-> << >>]
    /\ fresh' = NoFresh
    /\ UNCHANGED <<threads, disk, objs, rdicts, rlists, rsets, built, iter, watch, ghost, nops>>

\* what one turn of the for loop leaves, r being what hacer_evento did
Turn(event, r, h, message) ==
    /\ rdicts' = IF r.get # << >> THEN r.get[1].rdicts ELSE rdicts
    /\ rlists' = IF r.get # << >> THEN r.get[1].rlists ELSE rlists
    /\ rsets' = IF r.get # << >> THEN r.get[1].rsets ELSE rsets
    /\ built' = IF r.get = << >> \/ r.get[1].exc # "none" THEN built
                ELSE [made |-> IF r.get[1].new # << >> THEN built.made \cup {h}
                               ELSE built.made,
                      given |-> built.given \cup {h}]
    /\ objs' = IF r.call # << >> THEN Extend(objs, h, r.call[1].obj)
               ELSE IF r.get # << >> /\ r.get[1].new # << >>
               THEN Extend(objs, h, r.get[1].new[1])
               ELSE objs
    /\ disk' = IF r.call # << >>
               THEN [disk EXCEPT ![r.call[1].obj.storage_file] = r.call[1].file]
               ELSE disk
    /\ ghost' =
         IF r.get = << >> THEN ghost
         ELSE IF r.call = << >>
         THEN (IF r.get[1].new # << >> THEN Extend(ghost, h, NoGhost) ELSE ghost)
         ELSE Extend(ghost, h,
                [changed |->
                   (IF r.get[1].new # << >> THEN 0 ELSE ghost[h].changed)
                     + (IF r.call[1].obj.storage # Target(r.get[1]).storage THEN 1 ELSE 0),
                 failed |->
                   (r.get[1].new = << >> /\ ghost[h].failed) \/ r.raised \in SaveErrors,
                 committed |->
                   \/ (r.get[1].new = << >> /\ ghost[h].committed)
                   \/ (r.raised = "none" /\ r.call[1].obj # Target(r.get[1]))])
    /\ last' = [op |-> "event", h |-> h, exc |-> r.raised, ret |-> r.result]
    /\ consumer' =
         IF r.raised # "none"
         THEN [consumer EXCEPT !.pc = "dead", !.exc = r.raised, !.event = event,
                               !.error = << >>, !.seen = @ + 1]
         ELSE [consumer EXCEPT
                 !.pc = IF consumer.left = 1 THEN "poll" ELSE "exec",
                 !.left = @ - 1,
                 !.seen = @ + 1,
                 !.event = event,
                 !.error = r.error,
                 !.message = message,
                 !.out = IF consumer.left = 1 /\ message # << >>
                         THEN JsonFile(message) ELSE @,
                 !.nout = IF consumer.left = 1 /\ message # << >> THEN @ + 1 ELSE @]

Handled(event, r) ==
    Turn(event, r, IF r.get # << >> THEN r.get[1].ret ELSE NoHandle,
         Respond(consumer.message, event, r))

\* one turn of the for loop on the descriptor event, and after the last
\* descriptor the produce of the list message
Event(event, order, pick, io) ==
    /\ consumer.pc = "exec"
    /\ Handled(event, hacer_evento(event, order, pick, io))
    /\ fresh' = NoFresh
    /\ UNCHANGED <<threads, iter, watch, nops>>

\* ------------------------------------------------------------------------
\* Specifications
\* ------------------------------------------------------------------------
GetTypes == TypeNames \cup {"InvalidType"}
GetIds == Ids \cup {NoId}
Indexes == (0 - NumItems)..NumItems
OptIndexes == {<< >>} \cup {<<i>> : i \in Indexes}
Handles == DOMAIN objs

\* one collection at a time, obtained from the factory
OneObject(typeName, identifier) ==
    Handles \subseteq {<<typeName, OrDefault(identifier, typeName), 1>>}

Get == \E t \in GetTypes, ord \in Orders : OneObject(t, NoId) /\ FactoryGet(t, NoId, ord)

Mutators(IO) ==
    \/ \E h \in Handles, k \in Items, v \in Items, io \in IO : RDict_setItem(h, k, v, io)
    \/ \E h \in Handles, k \in Items, io \in IO : RDict_remove(h, k, io)
    \/ \E h \in Handles, k \in Items, io \in IO : RDict_pop(h, k, io)
    \/ \E h \in Handles, x \in Items, io \in IO : RList_append(h, x, io)
    \/ \E h \in Handles, x \in Items, io \in IO : RList_remove(h, x, io)
    \/ \E h \in Handles, i \in OptIndexes, io \in IO : RList_pop(h, i, io)
    \/ \E h \in Handles, x \in Items, io \in IO : RSet_add(h, x, io)
    \/ \E h \in Handles, x \in Items, io \in IO : RSet_remove(h, x, io)
    \/ \E h \in Handles, x \in Items, io \in IO : RSet_pop(h, x, io)

\* Persistence: one collection, its mutating calls with every outcome of the
\* save, and a second instance opened on the same file.
Next ==
    \/ Get
    \/ Mutators(IoOutcomes)
    \/ \E h \in Handles : Reopen(h)

Spec == Init /\ [][Next]_vars

\* Iteration: one collection, its mutating calls, and one iterator over it.
NextIter ==
    \/ Get
    \/ Mutators({"ok"})
    \/ \E h \in Handles : Iter(h)
    \/ IterNext

SpecIter == Init /\ [][NextIter]_vars

\* Two iterators over one collection: the collection is obtained once and
\* its mutating calls are made before the second iterator is taken.
NextPair ==
    \/ Handles = {} /\ Get
    \/ watch.other.kind = "none" /\ Mutators({"ok"})
    \/ \E h \in Handles : Iter(h)
    \/ IterNext
    \/ \E h \in Handles : IterOther(h)
    \/ OtherNext

SpecPair == Init /\ [][NextPair]_vars

\* Factory.get called from two dispatch threads whose statements interleave.
NextRace ==
    \/ \E t \in Threads, typeName \in TypeNames, ord \in Orders :
          (typeName = "RSet" \/ ord = "asc") /\ GetCheck(t, typeName, NoId, ord)
    \/ \E t \in Threads : GetCreate(t)
    \/ \E t \in Threads : GetReturn(t)

SpecRace == Init /\ [][NextRace]_vars

\* The factory alone: any sequence of Factory.get calls.
NextFactory == \E t \in GetTypes, i \in GetIds, ord \in Orders : FactoryGet(t, i, ord)

SpecFactory == Init /\ [][NextFactory]_vars

\* The descriptors of a payload.  The one at position pos has the id pos;
\* all address the collections named TargetId.
Descriptor(id, obj_type, obj_identifier, operation, args) ==
    [id |-> id, object_type |-> obj_type, object_identifier |-> obj_identifier,
     operation |-> operation, args |-> args]
TargetId == ToString(1)
TargetItem == ToString(1)

ItemArgs == {[item |-> x] : x \in Items}
PairArgs == {[key |-> k, item |-> TargetItem] : k \in Items}
IndexArgs == {[index |-> i] : i \in {0, 0 - 1, NumItems}}
With(operations, argss) == {<<op, a>> : op \in operations, a \in argss}
SharedRequests ==
    With({"identifier", "length", "hash", "iter"}, {NoArgs})
        \cup With({"remove"}, {[item |-> TargetItem]})
        \cup With({"contains"}, {[item |-> TargetItem], NoArgs})
Requests(obj_type) ==
    CASE obj_type = "RDict" ->
           SharedRequests \cup With({"setItem"}, PairArgs)
               \cup With({"getItem", "pop"}, {[key |-> TargetItem]})
               \cup With({"append"}, {NoArgs})
      [] obj_type = "RList" ->
           SharedRequests \cup With({"append"}, ItemArgs)
               \cup With({"pop"}, IndexArgs \cup {NoArgs})
               \cup With({"getItem"}, IndexArgs)
               \cup With({"add"}, {NoArgs})
      [] obj_type = "RSet" ->
           SharedRequests \cup With({"add"}, ItemArgs)
               \cup With({"pop", "append"}, {NoArgs})
      [] OTHER -> With({"length"}, {NoArgs})

WellFormed(id, obj_type) ==
    {Descriptor(id, obj_type, TargetId, q[1], q[2]) : q \in Requests(obj_type)}
\* a descriptor that lacks a required field
Malformed(d) ==
    {[object_type |-> d.object_type, object_identifier |-> d.object_identifier,
      operation |-> d.operation, args |-> d.args],
     [id |-> d.id, object_identifier |-> d.object_identifier,
      operation |-> d.operation, args |-> d.args],
     [id |-> d.id, object_type |-> d.object_type, operation |-> d.operation,
      args |-> d.args],
     [id |-> d.id, object_type |-> d.object_type,
      object_identifier |-> d.object_identifier, args |-> d.args]}
\* a descriptor without args
Bare(d) ==
    [id |-> d.id, object_type |-> d.object_type,
     object_identifier |-> d.object_identifier, operation |-> d.operation]
\* a descriptor whose id is null
Anonymous(d) == [d EXCEPT !.id = PyNone]
Variants(id, obj_type) ==
    LET length == Descriptor(id, obj_type, TargetId, "length", NoArgs)
        iter_ == Descriptor(id, obj_type, TargetId, "iter", NoArgs)
    IN  Malformed(length) \cup {Bare(length), Anonymous(length), Anonymous(iter_)}
Descriptors(id, obj_type) ==
    WellFormed(id, obj_type) \cup Variants(id, obj_type) \cup WellFormed(id, "RQueue")

\* the choices a descriptor leaves open: the table order of a set it has
\* constructed, the member a pop of a set takes, the outcome of a save
Known(event) == RequiredFields \subseteq DOMAIN event
OrdersOf(event) ==
    IF Known(event) /\ event.object_type = "RSet"
          /\ OrDefault(event.object_identifier, "RSet") \notin DOMAIN rsets
    THEN Orders ELSE {"asc"}
PicksOf(event, order) ==
    IF Known(event) /\ event.object_type = "RSet" /\ event.operation = "pop"
    THEN LET store == Target(Factory_get("RSet", event.object_identifier, order)).storage
         IN  IF store = {} THEN {TargetItem} ELSE store
    ELSE {TargetItem}
IosOf(event) ==
    IF Known(event) /\ event.operation \in MutatorOps THEN IoOutcomes ELSE {"ok"}

Payloads ==
    {<<"error", 0>>, <<"binary", 0>>, <<"garbage", 0>>}
      \cup {<<"batch", n>> : n \in 0..MaxBatch}

\* The dispatcher: payloads of descriptors addressed to one collection, the
\* storage directory empty at the start.
NextDispatch ==
    \/ \E p \in Payloads :
         consumer.pc = "poll" /\ consumer.seen + p[2] <= MaxBatch /\ Poll(p[1], p[2])
    \/ \E t \in TypeNames :
         /\ consumer.pc = "exec"
         /\ OneObject(t, TargetId)
         /\ \E event \in Descriptors(ToString(consumer.seen + 1), t) :
              \E order \in OrdersOf(event) :
                \E pick \in PicksOf(event, order), io \in IosOf(event) :
                   Event(event, order, pick, io)

InitDispatch == Init /\ disk = DiskAbsent

SpecDispatch == InitDispatch /\ [][NextDispatch]_vars

\* ------------------------------------------------------------------------
\* Properties
\* ------------------------------------------------------------------------
SameKey(a, b) == a[1] = b[1] /\ a[2] = b[2]
CacheKept(cache) ==
    \A i \in DOMAIN cache : i \in DOMAIN cache' /\ cache'[i] = cache[i]

\* the persisted record of the instance h equals its contents in memory
PersistedMatches(h) ==
    LET o == objs[h]
        f == disk[o.storage_file]
    IN  /\ f.st = "json"
        /\ CASE o.type = "RDict" -> f.val = o.storage
             [] o.type = "RList" -> o.id \in DOMAIN f.val /\ f.val[o.id] = o.storage
             [] OTHER -> /\ o.id \in DOMAIN f.val
                         /\ Range(f.val[o.id]) = o.storage
                         /\ Len(f.val[o.id]) = Cardinality(o.storage)

SameContents(a, b) ==
    CASE a.type = "RDict" -> Range(a.storage) = Range(b.storage) /\ Len(a.storage) = Len(b.storage)
      [] a.type = "RList" -> a.storage = b.storage /\ Len(a.storage) = Len(b.storage)
      [] OTHER -> a.storage = b.storage /\ Cardinality(a.storage) = Cardinality(b.storage)

\* C1: for any sequence of Factory.get calls, the handles returned for one
\* (type, identifier) are all the same handle, at most one instance is ever
\* constructed per (type, identifier), and a cache entry, once created, is
\* never replaced or evicted.
C1_OnePerKey ==
    /\ \A a \in built.given, b \in built.given : SameKey(a, b) => a = b
    /\ \A a \in built.made, b \in built.made : SameKey(a, b) => a = b
C1_FactorySingleton ==
    [](C1_OnePerKey) /\ [][CacheKept(rdicts) /\ CacheKept(rlists) /\ CacheKept(rsets)]_vars
\* a second get for the same (type, identifier) has returned the cached handle
C1_Witness ==
    last.op = "get" /\ last.exc = "none" /\ last.ret = <<TRUE>> /\ last.h \in built.made

\* C2: the modification counter of a collection equals the number of calls
\* (Dict setItem/remove/pop, List append/remove/pop, Set add/remove/pop) made
\* on it since its construction that changed its contents.
C2_CounterCountsChanges == \A h \in Handles : objs[h].mod = ghost[h].changed

\* C3: after a successful mutating call returns, and from the first successful
\* mutation on, the persisted record of the collection equals its contents in
\* memory.
C3_PersistedEqualsMemory ==
    /\ (last.op \in MutatorOps /\ last.exc = "none") => PersistedMatches(last.h)
    /\ \A h \in Handles : ghost[h].committed => PersistedMatches(h)

\* C4: for an iterator over a Dict or a List, once a mutating call (setItem,
\* append, remove, pop) has succeeded after the iterator was created, every
\* call to next() fails with Cancelled, however many elements remain.
C4_FailFast ==
    (iter.kind \in {"RDict", "RList"} /\ watch.okCalls /\ last.op = "next")
        => last.exc = "CancelIteration"
\* every element was returned, then a mutation succeeded, then next() was
\* called twice
C4_Witness ==
    /\ iter.kind \in {"RDict", "RList"} /\ watch.okCalls /\ last.op = "next"
    /\ watch.size >= 1 /\ Len(watch.out) = watch.size /\ watch.n >= watch.size + 2

\* C5: for an iterator over a Set, once a call that changed the set (add of a
\* new element, remove, pop) has succeeded after the iterator was created,
\* every call to next() fails with Cancelled.
C5_SetFailFast ==
    (iter.kind = "RSet" /\ watch.okChanges /\ last.op = "next")
        => last.exc = "CancelIteration"

\* C6: on a collection of N elements left alone since the iterator was
\* created, each of the first N calls to next() returns an element, every
\* call after them fails with Exhausted, and the elements returned are the
\* contents of the collection, each once.
C6_Exhaustion ==
    (last.op = "next" /\ ~watch.dirty) =>
        LET o == objs[iter.src]
            N == Size(o)
            out == watch.out
        IN  /\ watch.n <= N => (last.exc = "none" /\ Len(out) = watch.n)
            /\ watch.n > N => (last.exc = "StopIteration" /\ Len(out) = N)
            /\ CASE o.type = "RDict" ->
                      \A i \in 1..Len(out) : i <= N /\ out[i] = Format(o.storage[i])
                 [] o.type = "RList" ->
                      \A i \in 1..Len(out) : i <= N /\ out[i] = o.storage[i]
                 [] OTHER ->
                      Range(out) \subseteq o.storage /\ Cardinality(Range(out)) = Len(out)
\* an untouched collection of at least two elements was iterated to the end
C6_Witness ==
    /\ last.op = "next" /\ ~watch.dirty /\ last.exc = "StopIteration"
    /\ Len(watch.out) >= 2

\* C7: once a call to next() has failed with Exhausted or Cancelled, no later
\* call to next() on that iterator returns an element.
C7_TerminalStays ==
    (last.op = "next" /\ watch.term # "none") => last.exc # "none"
\* next() was called again after the iterator had ended, with the collection
\* changed in between
C7_Witness ==
    /\ last.op = "next" /\ watch.term # "none" /\ watch.okChanges
    /\ watch.n >= Len(watch.out) + 2

\* C8: when the save fails during a mutating operation, the operation reports
\* the failure and the contents and the counter in memory are what they were
\* before the call.
C8_FailedSaveRollsBack ==
    [][(last'.op \in MutatorOps /\ last'.exc \in SaveErrors) => objs' = objs]_vars

\* C9: when every mutating call made on a collection so far was saved, a new
\* instance constructed with the same identifier on the same backing file has
\* the same contents and the same length.
C9_RoundTrip ==
    (fresh.has /\ ~ghost[fresh.src].failed) => SameContents(fresh.obj, objs[fresh.src])
\* a collection changed by saved mutations has been opened a second time
C9_Witness ==
    /\ fresh.has
    /\ ghost[fresh.src].changed >= 2
    /\ ~ghost[fresh.src].failed
    /\ Size(objs[fresh.src]) >= 1

\* C10: when a dispatched operation fails at the collection level (Dict
\* getItem, pop or remove of an absent key, List getItem or pop with an
\* invalid index, List or Set remove of an absent item, Set pop on an empty
\* set), the dispatcher returns a non-null error for the descriptor and the
\* response record for it has status "error", an error field and no result
\* field.
CollectionErrors == {"KeyError", "IndexError"}
C10_FailureYieldsErrorRecord ==
    (last.op = "event" /\ last.exc \in CollectionErrors) =>
        /\ consumer.error # << >>
        /\ consumer.message # << >>
        /\ LET record == consumer.message[Len(consumer.message)]
           IN  /\ DOMAIN record = {"id", "status", "error"}
               /\ record.id = consumer.event.id
               /\ record.status = "error"

\* C11: batch independence.  When the operation of a descriptor fails at the
\* collection level, the consuming loop goes on with the rest of the batch:
\* the records of the descriptors run before it are kept, the failing
\* descriptor gets its own record, and the descriptors after it are still to
\* be run and reported in the same response batch.
C11_BatchIndependence ==
    [][(last'.op = "event" /\ last'.exc \in CollectionErrors) =>
          /\ consumer'.pc # "dead"
          /\ consumer'.left = consumer.left - 1
          /\ Len(consumer'.message) = Len(consumer.message) + 1
          /\ SubSeq(consumer'.message, 1, Len(consumer.message)) = consumer.message]_vars

\* C12: every response record has one of three shapes: {id, status "error",
\* error} when hacer_evento returned an error; {id, status "ok", result} when
\* it returned a value other than None, the values false and 0 included;
\* {id, status "ok"} when it returned None.  No record has both a result and
\* an error.
C12_Shaped ==
    \A i \in DOMAIN consumer.message :
       LET record == consumer.message[i]
       IN  \/ DOMAIN record = {"id", "status", "error"} /\ record.status = "error"
           \/ DOMAIN record = {"id", "status", "result"} /\ record.status = "ok"
           \/ DOMAIN record = {"id", "status"} /\ record.status = "ok"
C12_RecordShapes ==
    /\ [](C12_Shaped)
    /\ [][(/\ last'.op = "event" /\ last'.exc = "none"
           /\ Len(consumer'.message) # Len(consumer.message)) =>
             LET record == consumer'.message[Len(consumer'.message)]
                 id == consumer'.event.id
             IN  /\ Len(consumer'.message) = Len(consumer.message) + 1
                 /\ IF consumer'.error # << >>
                    THEN record = [id |-> id, status |-> "error",
                                   error |-> consumer'.error[1]]
                    ELSE IF last'.ret # << >>
                    THEN record = [id |-> id, status |-> "ok", result |-> last'.ret[1]]
                    ELSE record = [id |-> id, status |-> "ok"]]_vars
\* a length of 0 has been reported as a result
C12_Witness ==
    /\ last.op = "event" /\ Known(consumer.event)
    /\ consumer.event.operation = "length"
    /\ consumer.message # << >>
    /\ LET record == consumer.message[Len(consumer.message)]
       IN  /\ record.id = consumer.event.id
           /\ DOMAIN record = {"id", "status", "result"}
           /\ record.result = 0

\* C13: a descriptor that lacks one of the fields id, object_type,
\* object_identifier, operation is rejected with MalformedOperation before
\* the factory is consulted: no instance is created or cached, and no
\* collection, counter or file changes.
C13_MalformedRejected ==
    [][(last'.op = "event" /\ ~Known(consumer'.event)) =>
          /\ last'.exc = "none"
          /\ consumer'.error = <<"MalformedOperation">>
          /\ last'.ret = << >>
          /\ UNCHANGED <<objs, disk, rdicts, rlists, rsets, built>>]_vars
\* a descriptor lacking a field was rejected while a collection that had
\* been changed was there
C13_Witness ==
    /\ last.op = "event" /\ ~Known(consumer.event)
    /\ consumer.error = <<"MalformedOperation">>
    /\ \E h \in Handles : objs[h].mod >= 1

\* C14: a descriptor with every required field whose object_type is none of
\* "RList", "RDict", "RSet" fails with UnknownObjectType, and the factory is
\* not called for it: no instance is created or cached and nothing changes.
C14_UnknownTypeRejected ==
    [][(/\ last'.op = "event" /\ Known(consumer'.event)
        /\ consumer'.event.object_type \notin {"RList", "RDict", "RSet"}) =>
          /\ last'.exc = "none"
          /\ consumer'.error = <<"UnknownObjectType">>
          /\ last'.ret = << >>
          /\ UNCHANGED <<objs, disk, rdicts, rlists, rsets, built>>]_vars
\* a descriptor of an unknown type was rejected while a collection that had
\* been changed was there
C14_Witness ==
    /\ last.op = "event" /\ Known(consumer.event)
    /\ consumer.event.object_type \notin {"RList", "RDict", "RSet"}
    /\ consumer.error = <<"UnknownObjectType">>
    /\ \E h \in Handles : objs[h].mod >= 1

\* C15: a dispatched operation named "iter" is rejected with
\* OperationNotSupported for each of the three types; no iterator is created,
\* and the contents and the counter of the target collection are unchanged.
C15_IterRejected ==
    [][(/\ last'.op = "event" /\ Known(consumer'.event)
        /\ consumer'.event.object_type \in TypeNames
        /\ consumer'.event.operation = "iter") =>
          /\ last'.exc = "none"
          /\ consumer'.error = <<"OperationNotSupported">>
          /\ last'.ret = << >>
          /\ iter' = iter
          /\ disk' = disk
          /\ \A h \in DOMAIN objs : objs'[h] = objs[h]
          /\ last'.h \notin DOMAIN objs => objs'[last'.h].mod = 0]_vars
\* iter was rejected on a collection that had been changed before
C15_Witness ==
    /\ last.op = "event" /\ Known(consumer.event)
    /\ consumer.event.operation = "iter"
    /\ consumer.error = <<"OperationNotSupported">>
    /\ last.h \in Handles /\ objs[last.h].mod >= 1 /\ Size(objs[last.h]) >= 1

\* C16: a dispatched operation whose name is neither in the shared table nor
\* in the handler table of the descriptor's type (a name of another type's
\* table included, such as "append" on an RSet) gives no result and no
\* error, and leaves the contents, the counter and the file of the target
\* collection unchanged.
SharedTable == {"identifier", "remove", "length", "contains", "hash", "iter"}
HandlerTable(obj_type) ==
    CASE obj_type = "RList" -> {"append", "pop", "getItem"}
      [] obj_type = "RDict" -> {"setItem", "getItem", "pop"}
      [] OTHER -> {"add", "pop"}
C16_UnknownOperationIgnored ==
    [][(/\ last'.op = "event" /\ Known(consumer'.event)
        /\ consumer'.event.object_type \in TypeNames
        /\ consumer'.event.operation \notin
              SharedTable \cup HandlerTable(consumer'.event.object_type)) =>
          /\ last'.exc = "none"
          /\ consumer'.error = << >>
          /\ last'.ret = << >>
          /\ disk' = disk
          /\ \A h \in DOMAIN objs : objs'[h] = objs[h]
          /\ last'.h \notin DOMAIN objs => objs'[last'.h].mod = 0]_vars
\* an operation of another type's table was dispatched to a collection that
\* had been changed before
C16_Witness ==
    /\ last.op = "event" /\ Known(consumer.event)
    /\ consumer.event.object_type \in TypeNames
    /\ consumer.event.operation \in {"append", "add"}
    /\ consumer.event.operation \notin HandlerTable(consumer.event.object_type)
    /\ last.exc = "none" /\ consumer.error = << >>
    /\ last.h \in Handles /\ objs[last.h].mod >= 1 /\ Size(objs[last.h]) >= 1

\* C17: the descriptors of a decoded batch are run in array order and each
\* adds exactly one record, carrying its id, at the end of the response
\* batch; the response batch is published once, after the last descriptor,
\* when it has at least one record, and nothing is published otherwise.
C17_OneRecordPerDescriptor ==
    [][/\ last'.op = "event" =>
            /\ consumer'.pc # "dead"
            /\ consumer'.left = consumer.left - 1
            /\ Len(consumer'.message) = Len(consumer.message) + 1
            /\ SubSeq(consumer'.message, 1, Len(consumer.message)) = consumer.message
            /\ "id" \in DOMAIN consumer'.event
            /\ consumer'.message[Len(consumer'.message)].id = consumer'.event.id
            /\ IF consumer.left = 1
               THEN consumer'.nout = consumer.nout + 1
                      /\ consumer'.out = JsonFile(consumer'.message)
               ELSE consumer'.nout = consumer.nout /\ consumer'.out = consumer.out
       /\ last'.op = "poll" =>
            consumer'.nout = consumer.nout /\ consumer'.out = consumer.out]_vars

\* C18: a payload that fails to decode is dropped whole: no operation runs,
\* no collection, cache or file changes, nothing is published and the loop
\* goes back to polling.
C18_UndecodableDropped ==
    [][(last'.op = "poll" /\ consumer'.payload \in {"binary", "garbage"}) =>
          /\ consumer'.pc = "poll"
          /\ consumer'.exc = "none"
          /\ consumer'.nout = consumer.nout
          /\ consumer'.out = consumer.out
          /\ UNCHANGED <<objs, disk, rdicts, rlists, rsets, built>>]_vars

\* C19: Factory.get with a type outside RDict, RList, RSet fails with the
\* invalid-type error (ValueError), creates no instance and leaves the three
\* caches as they are, whatever identifier it is given and whatever the
\* factory already holds.
C19_Refused ==
    \A t \in GetTypes \ TypeNames, i \in GetIds, ord \in Orders :
       LET r == Factory_get(t, i, ord)
       IN  /\ r.exc = "ValueError"
           /\ r.new = << >>
           /\ r.rdicts = rdicts /\ r.rlists = rlists /\ r.rsets = rsets
C19_InvalidTypeRejected ==
    /\ [](C19_Refused)
    /\ [][(last'.op = "get" /\ last'.exc = "ValueError") =>
            UNCHANGED <<objs, rdicts, rlists, rsets, built, disk>>]_vars

C19_Witness ==
    /\ last.op = "get"
    /\ last.exc = "ValueError"
    /\ rdicts # << >>
    /\ rsets # << >>

\* C20: remove on a Dict, a List or a Set, and getItem and pop on a Dict,
\* called with a key or item the collection does not hold, fail with
\* KeyError and leave the contents, the modification counter and the
\* persisted file as they were.
C20_Untouched(r, o, f) == r.exc = "KeyError" /\ r.obj = o /\ r.file = f
C20_Refused ==
    \A h \in Handles, x \in Items, io \in IoOutcomes :
       LET o == objs[h]
           f == File(h)
       IN  CASE o.type = "RDict" ->
                  x \notin DictKeys(o.storage) =>
                     /\ C20_Untouched(DictRemove(o, f, x, io), o, f)
                     /\ C20_Untouched(DictPop(o, f, x, io), o, f)
                     /\ C20_Untouched(DictGetItem(o, f, x), o, f)
             [] o.type = "RList" ->
                  x \notin Range(o.storage) => C20_Untouched(ListRemove(o, f, x, io), o, f)
             [] OTHER ->
                  x \notin o.storage => C20_Untouched(SetRemove(o, f, x, io), o, f)
C20_AbsentKeyRejected ==
    /\ [](C20_Refused)
    /\ [][(last'.exc = "KeyError"
             /\ (last'.op = "remove" \/ (last'.op = "pop" /\ last'.h[1] = "RDict"))) =>
            UNCHANGED <<objs, disk, ghost>>]_vars

C20_Witness ==
    /\ last.op \in {"remove", "pop"}
    /\ last.exc = "KeyError"
    /\ last.h \in Handles
    /\ objs[last.h].type = "RDict"
    /\ objs[last.h].storage # << >>
    /\ objs[last.h].mod >= 1

\* C21: Set.add of a member changes nothing (members, length, counter,
\* persisted file); Set.add of a non-member makes contains true for it and
\* raises the length and the counter by one.
C21_Add(o, f, x, io) ==
    LET r == SetAdd(o, f, x, io)
    IN  IF x \in o.storage
        THEN r.exc = "none" /\ r.obj = o /\ r.file = f
        ELSE /\ SetContains(r.obj, r.file, x).ret = <<TRUE>>
             /\ SetLength(r.obj, r.file).ret[1] = SetLength(o, f).ret[1] + 1
             /\ r.obj.mod = o.mod + 1
             /\ \A y \in Items \ {x} : (y \in r.obj.storage) = (y \in o.storage)
C21_AddIdempotent ==
    /\ [](\A h \in Handles, x \in Items, io \in IoOutcomes :
            objs[h].type = "RSet" => C21_Add(objs[h], File(h), x, io))
    /\ [][(last'.op = "add" /\ objs'[last'.h].mod = objs[last'.h].mod) =>
            UNCHANGED <<objs, disk>>]_vars

\* a member has been added again: two calls made, one counted
C21_Witness ==
    /\ last.op = "add"
    /\ last.exc = "none"
    /\ nops = 2
    /\ objs[last.h].mod = 1
    /\ ghost[last.h].changed = 1
    /\ ~ghost[last.h].failed

\* C22: Dict.setItem(k, v) fails for no key and no value (only a failing
\* save makes it raise) and is an upsert: afterwards getItem(k) returns v,
\* every other key keeps its value, the length grows by one if k was absent
\* and not at all if it was present, and a second setItem(k, v) changes
\* neither contents nor length.  Dict.pop(k) on a present key returns the
\* value k holds, the one set last, and removes k.
C22_SetItem(o, f, k, v, io) ==
    LET r == DictSetItem(o, f, k, v, io)
        again == DictSetItem(r.obj, r.file, k, v, io)
        popped == DictPop(r.obj, r.file, k, "ok")
    IN  /\ r.exc \in {"none"} \cup SaveErrors
        /\ io = "ok" => r.exc = "none"
        /\ DictGetItem(r.obj, r.file, k) = Returns(r.obj, r.file, <<v>>)
        /\ \A j \in Items \ {k} :
              DictGetItem(r.obj, r.file, j).exc = DictGetItem(o, f, j).exc
                /\ DictGetItem(r.obj, r.file, j).ret = DictGetItem(o, f, j).ret
        /\ DictLength(r.obj, r.file).ret[1] =
              DictLength(o, f).ret[1] + (IF DictContains(o, f, k).ret[1] THEN 0 ELSE 1)
        /\ again.obj.storage = r.obj.storage
        /\ DictLength(again.obj, again.file).ret = DictLength(r.obj, r.file).ret
        /\ popped.exc = "none" /\ popped.ret = <<v>>
        /\ DictContains(popped.obj, popped.file, k).ret = <<FALSE>>
        /\ \A j \in Items \ {k} :
              DictGetItem(popped.obj, popped.file, j).ret = DictGetItem(o, f, j).ret
C22_Pop(o, f, k) ==
    LET r == DictPop(o, f, k, "ok")
    IN  DictContains(o, f, k).ret = <<TRUE>> =>
          /\ r.exc = "none"
          /\ r.ret = DictGetItem(o, f, k).ret
          /\ DictContains(r.obj, r.file, k).ret = <<FALSE>>
          /\ DictLength(r.obj, r.file).ret[1] = DictLength(o, f).ret[1] - 1
C22_Upsert ==
    \A h \in Handles :
       objs[h].type = "RDict" =>
          /\ \A k \in Items, v \in Items, io \in IoOutcomes :
                C22_SetItem(objs[h], File(h), k, v, io)
          /\ \A k \in Items : C22_Pop(objs[h], File(h), k)

\* the same pair has been set twice: two calls counted, one change
C22_Witness ==
    /\ last.op = "setItem"
    /\ last.exc = "none"
    /\ objs[last.h].mod = 2
    /\ ghost[last.h].changed = 1
    /\ ~ghost[last.h].failed
    /\ Len(objs[last.h].storage) = 1

\* C23: List.append(x) fails for no item (only a failing save makes it
\* raise) and puts x at the end: the length is one greater, getItem(length-1)
\* returns x and the earlier positions are unchanged.  List.pop() removes
\* and returns the last element; List.pop(i) with 0 <= i < length removes
\* and returns the element at i and moves the later ones down by one in
\* order.  getItem never changes the list.
C23_At(o, f, i) == ListGetItem(o, f, i).ret
C23_Append(o, f, x, io) ==
    LET r == ListAppend(o, f, x, io)
        n == ListLength(o, f).ret[1]
    IN  /\ r.exc \in {"none"} \cup SaveErrors
        /\ io = "ok" => r.exc = "none"
        /\ ListLength(r.obj, r.file).ret[1] = n + 1
        /\ ListGetItem(r.obj, r.file, n) = Returns(r.obj, r.file, <<x>>)
        /\ \A i \in 0..(n - 1) : C23_At(r.obj, r.file, i) = C23_At(o, f, i)
C23_PopAt(o, f, index, i) ==
    LET r == ListPop(o, f, index, "ok")
        n == ListLength(o, f).ret[1]
    IN  /\ r.exc = "none"
        /\ r.ret = C23_At(o, f, i)
        /\ ListLength(r.obj, r.file).ret[1] = n - 1
        /\ \A j \in 0..(i - 1) : C23_At(r.obj, r.file, j) = C23_At(o, f, j)
        /\ \A j \in i..(n - 2) : C23_At(r.obj, r.file, j) = C23_At(o, f, j + 1)
C23_ListOrder ==
    \A h \in Handles :
       objs[h].type = "RList" =>
          LET o == objs[h]
              f == File(h)
              n == ListLength(o, f).ret[1]
          IN  /\ \A x \in Items, io \in IoOutcomes : C23_Append(o, f, x, io)
              /\ n > 0 => C23_PopAt(o, f, << >>, n - 1)
              /\ \A i \in 0..(n - 1) : C23_PopAt(o, f, <<i>>, i)
              /\ \A i \in Indexes :
                    ListGetItem(o, f, i).obj = o /\ ListGetItem(o, f, i).file = f

\* the first of two elements has been popped
C23_Witness ==
    /\ last.op = "pop"
    /\ last.exc = "none"
    /\ last.h[1] = "RList"
    /\ last.ret = <<ToString(1)>>
    /\ objs[last.h].storage = <<ToString(2)>>

\* C24: Set.pop on an empty set fails with the error the servant raises for
\* an empty set (rt.KeyError) and changes neither the set, the counter nor
\* the file; Set.pop on a non-empty set returns a member, removes exactly
\* that member (the length goes down by one) and raises the counter by one.
C24_Pop(o, f, pick, io) ==
    LET r == SetPop(o, f, pick, io)
    IN  IF SetLength(o, f).ret[1] = 0
        THEN r.exc = "KeyError" /\ r.ret = << >> /\ r.obj = o /\ r.file = f
        ELSE /\ r.exc \in {"none"} \cup SaveErrors
             /\ io = "ok" => (r.exc = "none" /\ r.ret # << >>)
             /\ r.ret # << >> =>
                  /\ SetContains(o, f, r.ret[1]).ret = <<TRUE>>
                  /\ r.obj.storage = o.storage \ {r.ret[1]}
             /\ SetLength(r.obj, r.file).ret[1] = SetLength(o, f).ret[1] - 1
             /\ r.obj.storage \subseteq o.storage
             /\ r.obj.mod = o.mod + 1
C24_SetPop ==
    /\ [](\A h \in Handles, io \in IoOutcomes :
            objs[h].type = "RSet" =>
               \A pick \in (IF objs[h].storage = {} THEN Items ELSE objs[h].storage) :
                  C24_Pop(objs[h], File(h), pick, io))
    /\ [][(last'.op = "pop" /\ last'.h[1] = "RSet" /\ last'.exc = "KeyError") =>
            (objs[last'.h].storage = {} /\ UNCHANGED <<objs, disk>>)]_vars

\* one of two members has been popped
C24_Witness ==
    /\ last.op = "pop"
    /\ last.h[1] = "RSet"
    /\ last.exc = "none"
    /\ last.ret # << >>
    /\ last.ret[1] \notin objs[last.h].storage
    /\ Cardinality(objs[last.h].storage) = 1

\* C25: hash() depends on the contents only.  Two calls without a mutation
\* in between return the same value and change nothing; a Dict or a Set
\* with the same contents entered in another order has the same hash; two
\* Lists have the same hash only when they hold the same elements in the
\* same order; a mutation that changes the contents changes the hash.
C25_Hash(o, f) ==
    CASE o.type = "RDict" -> DictHash(o, f)
      [] o.type = "RList" -> ListHash(o, f)
      [] OTHER -> SetHash(o, f)
C25_Permutations(s) == {q \in [DOMAIN s -> Range(s)] : Range(q) = Range(s)}
C25_Lists == UNION {[1..n -> Items] : n \in 0..(MaxOps + 1)}
C25_ContentsOnly ==
    \A h \in Handles :
       LET o == objs[h]
           f == File(h)
           r == C25_Hash(o, f)
       IN  /\ r.exc = "none" /\ r.obj = o /\ r.file = f
           /\ C25_Hash(r.obj, r.file).ret = r.ret
           /\ o.type = "RDict" =>
                \A q \in C25_Permutations(o.storage) :
                   DictHash([o EXCEPT !.storage = q], f).ret = r.ret
           /\ o.type = "RSet" =>
                \A ord \in Orders : SetHash([o EXCEPT !.order = ord], f).ret = r.ret
           /\ o.type = "RList" =>
                \A q \in C25_Lists :
                   ListHash([o EXCEPT !.storage = q], f).ret = r.ret => q = o.storage
C25_SameContents(a, b) ==
    IF a.type = "RDict" THEN Range(a.storage) = Range(b.storage)
    ELSE a.storage = b.storage
C26_HasRecord(f, o) ==
    f.st = "json" /\ (o.type = "RDict" \/ o.id \in DOMAIN f.val)
C26_Record(f, o) ==
    CASE o.type = "RDict" -> f.val
      [] o.type = "RList" -> f.val[o.id]
      [] OTHER -> Range(f.val[o.id])
C26_InitialRecord ==
    [][\A h \in (DOMAIN objs') \ Handles :
          LET o == objs'[h]
              before == disk[o.storage_file]
              after == disk'[o.storage_file]
          IN  IF C26_HasRecord(before, o)
              THEN o.storage = C26_Record(before, o)
              ELSE /\ Size(o) = 0
                   /\ C26_HasRecord(after, o)
                   /\ C26_Record(after, o) = o.storage]_vars

\* C27: a descriptor sees what the earlier successful descriptors on the same
\* (type, identifier) did, within a batch and across batches: a dispatched
\* append to an RList puts the item after the elements already there, a
\* dispatched length returns their number and a dispatched getItem with a
\* valid index returns the element at it, without error; so after an append
\* of x to an empty RList, length returns 1 and getItem of index 0 returns x.
C27_List == <<"RList", TargetId, 1>>
C27_Before == IF C27_List \in Handles THEN objs[C27_List].storage ELSE << >>
C27_LaterSeesEarlier ==
    [][(/\ last'.op = "event"
        /\ Known(consumer'.event)
        /\ consumer'.event.object_type = "RList") =>
          LET event == consumer'.event
              clean == last'.exc = "none" /\ consumer'.error = << >>
          IN  CASE event.operation = "append" ->
                     last'.exc = "none" =>
                        /\ clean
                        /\ objs'[C27_List].storage = Append(C27_Before, event.args.item)
                [] event.operation = "length" ->
                     clean /\ last'.ret = <<Len(C27_Before)>>
                [] event.operation = "getItem" ->
                     (0 <= event.args.index /\ event.args.index < Len(C27_Before)) =>
                        clean /\ last'.ret = <<C27_Before[event.args.index + 1]>>
                [] OTHER -> TRUE]_vars

\* an append and then a getItem of index 0 that returned the item
C27_Witness ==
    /\ last.op = "event"
    /\ Known(consumer.event)
    /\ consumer.event.operation = "getItem"
    /\ consumer.event.object_type = "RList"
    /\ consumer.event.args = [index |-> 0]
    /\ consumer.seen = 2
    /\ consumer.message =
          <<[id |-> ToString(1), status |-> "ok"],
            [id |-> ToString(2), status |-> "ok", result |-> ToString(2)]>>

\* C28: the modification counter starts at 0, never decreases, and changes
\* only by +1 and only in a mutating call that succeeds: the queries
\* (identifier, length, contains, hash, getItem), iter() and every call
\* that fails leave it unchanged.
C28_Queries(o, f) ==
    /\ Identifier(o, f).obj = o
    /\ C25_Hash(o, f).obj = o
    /\ CASE o.type = "RDict" ->
              /\ DictLength(o, f).obj = o
              /\ \A x \in Items : DictContains(o, f, x).obj = o /\ DictGetItem(o, f, x).obj = o
         [] o.type = "RList" ->
              /\ ListLength(o, f).obj = o
              /\ \A x \in Items : ListContains(o, f, x).obj = o
              /\ \A i \in Indexes : ListGetItem(o, f, i).obj = o
         [] OTHER ->
              /\ SetLength(o, f).obj = o
              /\ \A x \in Items : SetContains(o, f, x).obj = o
C28_CounterSteps ==
    /\ [](\A h \in Handles : C28_Queries(objs[h], File(h)))
    /\ [][/\ \A h \in (DOMAIN objs') \ Handles : objs'[h].mod = 0
          /\ \A h \in Handles :
                \/ objs'[h].mod = objs[h].mod
                \/ /\ objs'[h].mod = objs[h].mod + 1
                   /\ last'.op \in MutatorOps
                   /\ last'.h = h
                   /\ last'.exc = "none"]_vars

\* C29: iter() changes neither the contents nor the counter of the
\* collection, so taking a second iterator does not cancel the one already
\* held, and next() on either iterator leaves the outcome of the next call
\* on the other as it was.
C29_HeldNext == IteratorNext(iter, objs[iter.src])
C29_OtherNext == IteratorNext(watch.other, objs[watch.other.src])
C29_IteratorsApart ==
    [][/\ last'.op \in {"iter", "other.iter"} => UNCHANGED <<objs, disk>>
       /\ last'.op \in {"other.iter", "other.next"} =>
             /\ iter' = iter
             /\ C29_HeldNext' = C29_HeldNext
       /\ (last'.op = "next" /\ watch.other.kind # "none") =>
             /\ watch'.other = watch.other
             /\ C29_OtherNext' = C29_OtherNext]_vars

\* the iterator held first has returned an element after a second one was
\* taken and advanced
C29_Witness ==
    /\ last.op = "next"
    /\ last.exc = "none"
    /\ watch.other.kind # "none"
    /\ watch.m >= 1
    /\ watch.n >= 2

\* C30: Exhausted and Cancelled are terminal and exclude each other: once an
\* iterator has reported one of them, every later next() reports the same
\* one, also when the collection is mutated in between.
C30_TerminalKept ==
    (last.op = "next" /\ watch.term # "none") => last.exc = watch.term

\* C31: every element next() has returned was in the collection when the
\* iterator was created, no entry is returned twice, and the order is the
\* one fixed at creation: Dict entries as "key: value" with the value of
\* that moment in insertion order, List elements from position 0 on, Set
\* members in the enumeration order of the set as it was.
C31_AsCreated(kind, order, snap, out) ==
    CASE kind = "RDict" ->
           /\ Len(out) <= Len(snap)
           /\ \A i \in DOMAIN out : out[i] = Format(snap[i])
      [] kind = "RList" ->
           /\ Len(out) <= Len(snap)
           /\ \A i \in DOMAIN out : out[i] = snap[i]
      [] OTHER ->
           /\ Len(out) <= Cardinality(snap)
           /\ \A i \in DOMAIN out : out[i] = SetList(snap, order)[i]
C31_ReturnsSnapshot ==
    iter.kind # "none" =>
       C31_AsCreated(iter.kind, objs[iter.src].order, watch.snap[1], watch.out)

\* C32: the persisted record of a Dict and of a List is a mapping from the
\* identifier of the collection to its state, and the shared Set file maps
\* the identifier of every saved Set to the list of its members.
C32_Keyed(o, f) ==
    /\ f.st = "json"
    /\ CASE o.type = "RDict" ->
              o.id \in DictKeys(f.val) /\ DictGet(f.val, o.id) = o.storage
         [] o.type = "RList" ->
              o.id \in DOMAIN f.val /\ f.val[o.id] = o.storage
         [] OTHER ->
              /\ o.id \in DOMAIN f.val
              /\ Range(f.val[o.id]) = o.storage
              /\ Len(f.val[o.id]) = Cardinality(o.storage)
C32_RecordShape ==
    \A h \in Handles :
       (ghost[h].committed /\ ~ghost[h].failed) => C32_Keyed(objs[h], File(h))

\* C33: constructing a Dict, a List or a Set whose backing file is missing
\* or cannot be decoded does not fail and gives an empty collection with
\* counter 0; from the first saved mutation on, the file is a complete JSON
\* document from which a new instance loads exactly the contents in memory.
C33_Reload(o) ==
    CASE o.type = "RDict" -> RemoteDict(o.id, o.storage_file)
      [] o.type = "RList" -> RemoteList(o.id, o.storage_file)
      [] OTHER -> RemoteSet(o.id, o.order)
C33_Rewritten ==
    \A h \in Handles :
       (ghost[h].committed /\ ~ghost[h].failed) =>
          /\ File(h).st = "json"
          /\ SameContents(C33_Reload(objs[h]), objs[h])
C34_PopReturnsValue ==
    [][(/\ last'.op = "event"
        /\ Known(consumer'.event)
        /\ consumer'.event.operation = "pop"
        /\ last'.exc = "none"
        /\ consumer'.error = << >>) =>
          LET h == <<consumer'.event.object_type, TargetId, 1>>
              record == consumer'.message[Len(consumer'.message)]
          IN  /\ Size(objs'[h]) = Size(objs[h]) - 1
              /\ last'.ret # << >>
              /\ "result" \in DOMAIN record
              /\ record.result = last'.ret[1]]_vars

\* C35: List.getItem(i) and List.pop(i) fail with IndexError for every index
\* outside 0..length-1, the negative ones included, and List.pop() fails
\* with IndexError on an empty list; the failed call leaves the list, the
\* counter and the file unchanged.
C35_Refused(r, o, f) == r.exc = "IndexError" /\ r.obj = o /\ r.file = f
C35_IndexChecked ==
    \A h \in Handles :
       objs[h].type = "RList" =>
          LET o == objs[h]
              f == File(h)
              n == ListLength(o, f).ret[1]
          IN  /\ \A i \in Indexes \ (0..(n - 1)) :
                    /\ C35_Refused(ListGetItem(o, f, i), o, f)
                    /\ \A io \in IoOutcomes : C35_Refused(ListPop(o, f, <<i>>, io), o, f)
              /\ n = 0 => \A io \in IoOutcomes : C35_Refused(ListPop(o, f, << >>, io), o, f)

\* C36: when the check-then-create steps of two Factory.get calls for the
\* same uncached (type, identifier) interleave, exactly one instance is
\* constructed and both callers receive the same handle.
C36_Same(a, b) == (a[1] = b[1] /\ a[2] = b[2]) => a = b
C36_OneInstanceUnderRace ==
    /\ \A a, b \in built.made : C36_Same(a, b)
    /\ \A a, b \in built.given : C36_Same(a, b)

\* C37: an iterator is never cancelled without a change of contents: when
\* only queries, failed operations and mutations that leave the contents
\* identical were applied to the collection since the iterator was created,
\* next() does not fail with CancelIteration.
C37_NoSpuriousCancel ==
    (last.op = "next" /\ ~watch.okChanges) => last.exc # "CancelIteration"

\* C38: an operation on one collection never changes another one: for two
\* distinct (type, identifier) pairs, every operation on the first leaves
\* the contents, the counter and the persisted record of the second
\* unchanged; a Set saved into the shared Set file preserves the records of
\* the other Set identifiers, and a Dict, a List and a Set of the same
\* identifier are independent.
C38_Record(g, d) ==
    LET f == d[objs[g].storage_file]
    IN  IF objs[g].type = "RSet"
        THEN IF f.st = "json" /\ objs[g].id \in DOMAIN f.val
             THEN <<f.val[objs[g].id]>> ELSE << >>
        ELSE <<f>>
C38_Apart(h, r) ==
    \A g \in Handles \ {h} :
       /\ [objs EXCEPT ![h] = r.obj][g] = objs[g]
       /\ C38_Record(g, [disk EXCEPT ![objs[h].storage_file] = r.file]) = C38_Record(g, disk)
C38_After(h, IO) ==
    LET o == objs[h]
        f == File(h)
    IN  \A x \in Items, y \in Items, io \in IO :
           CASE o.type = "RDict" ->
                  /\ C38_Apart(h, DictSetItem(o, f, x, y, io))
                  /\ C38_Apart(h, DictRemove(o, f, x, io))
                  /\ C38_Apart(h, DictPop(o, f, x, io))
             [] o.type = "RList" ->
                  /\ C38_Apart(h, ListAppend(o, f, x, io))
                  /\ C38_Apart(h, ListRemove(o, f, x, io))
                  /\ C38_Apart(h, ListPop(o, f, << >>, io))
             [] OTHER ->
                  /\ C38_Apart(h, SetAdd(o, f, x, io))
                  /\ C38_Apart(h, SetRemove(o, f, x, io))
                  /\ C38_Apart(h, SetPop(o, f, x, io))
C38_InstancesApart == \A h \in Handles : C38_After(h, IoOutcomes)

\* C39: the dispatcher applies the operation of a descriptor at most once:
\* "remove" is served by the shared table, returns no value and falls
\* through to the handler table of the type, which does nothing more; a
\* dispatched remove that succeeds removes exactly one entry and raises the
\* counter by exactly one.
C39_Holds(o, item) ==
    CASE o.type = "RDict" -> item \in DictKeys(o.storage)
      [] o.type = "RList" -> item \in Range(o.storage)
      [] OTHER -> item \in o.storage
C39_Removes(event, h) ==
    /\ last'.op = "event" /\ Known(event) /\ event.operation = "remove"
    /\ event.object_type \in TypeNames
    /\ "item" \in DOMAIN event.args
    /\ h \in Handles /\ C39_Holds(objs[h], event.args.item)
C39_AppliedOnce ==
    [][LET event == consumer'.event
           h == <<event.object_type, TargetId, 1>>
       IN  C39_Removes(event, h) =>
              /\ Size(objs'[h]) = Size(objs[h]) - 1
              /\ ~C39_Holds(objs'[h], event.args.item) \/ objs[h].type = "RList"
              /\ objs'[h].mod = objs[h].mod + 1
              /\ last'.exc \in {"none"} \cup SaveErrors
              /\ last'.exc = "none" => consumer'.error = << >>]_vars
C39_Witness ==
    /\ last.op = "event" /\ Known(consumer.event) /\ consumer.event.operation = "remove"
    /\ last.exc = "none" /\ consumer.error = << >>
    /\ \E h \in Handles : objs[h].mod = 2 /\ Size(objs[h]) = 0

====
